---- MODULE Spec2Model ----
(***************************************************************************)
(* A model of the yt-agent orchestration and execution pipeline:           *)
(*   src/yt_agent/tools/execution.py  capture_output, execute_generated_code*)
(*   src/yt_agent/agent.py            YtAgent (construction, cache setup,   *)
(*                                    generate_code, _extract_code, run)    *)
(*   src/main.py                      the process that owns the agent       *)
(*   src/yt_agent/tui.py              YtAgentApp (submission, worker thread) *)
(* Text is modelled as sequences of one-character strings.                  *)
(***************************************************************************)
EXTENDS Integers, Sequences, FiniteSets, TLC

VARIABLES
    proc,          \* "down" | "up": whether a process holding a YtAgent exists
    agent,         \* the YtAgent object's fields
    remote,        \* the live cache entries of the remote service
    nextId,        \* the number of the remote service's next cache entry
    sys_stdout,    \* the stream object bound to sys.stdout
    sys_stderr,    \* the stream object bound to sys.stderr
    history,       \* the records in the interaction log file
    tui,           \* the terminal UI: its workers, pending callbacks and chat log
    last           \* what the most recent operation did

vars == <<proc, agent, remote, nextId, sys_stdout, sys_stderr, history, tui, last>>

None == "None"

(***************************************************************************)
(* Bounds of the model.                                                    *)
(***************************************************************************)
\* the remote service accepts this many cache creations, then reports quota
MaxCaches == 2

(***************************************************************************)
(* Text helpers (Python str operations used by the code).                  *)
(***************************************************************************)
NL == "\n"

Whitespace == {" ", NL}

\* s[i:i+len(sub)] == sub
MatchAt(s, sub, i) ==
    /\ i + Len(sub) - 1 <= Len(s)
    /\ \A j \in 1..Len(sub) : s[i + j - 1] = sub[j]

RECURSIVE FindFrom(_, _, _)
FindFrom(s, sub, i) ==
    IF i + Len(sub) - 1 > Len(s) THEN 0
    ELSE IF MatchAt(s, sub, i) THEN i
    ELSE FindFrom(s, sub, i + 1)

\* s.find(sub), 1-based; 0 when absent
Find(s, sub) == FindFrom(s, sub, 1)

\* sub in s
Contains(s, sub) == Find(s, sub) # 0

RECURSIVE Split(_, _)
\* s.split(sep) for a non-empty separator
Split(s, sep) ==
    LET i == Find(s, sep) IN
    IF i = 0 THEN <<s>>
    ELSE <<SubSeq(s, 1, i - 1)>> \o Split(SubSeq(s, i + Len(sep), Len(s)), sep)

RECURSIVE LStrip(_)
LStrip(s) ==
    IF s # <<>> /\ s[1] \in Whitespace THEN LStrip(Tail(s)) ELSE s

RECURSIVE RStrip(_)
RStrip(s) ==
    IF s # <<>> /\ s[Len(s)] \in Whitespace THEN RStrip(SubSeq(s, 1, Len(s) - 1)) ELSE s

\* s.strip()
Strip(s) == RStrip(LStrip(s))

\* the backquote character (written BQ: the parser accepts no backquote in a string)
BQ == "BQ"

Fence == <<BQ, BQ, BQ>>

PythonFence == Fence \o <<"p", "y", "t", "h", "o", "n">>

\* _extract_code with the fenced branches returning the block as it stands
extract_code_unstripped(text) ==
    IF text = <<>> THEN <<>>
    ELSE IF Contains(text, PythonFence)
         THEN Split(Split(text, PythonFence)[2], Fence)[1]
    ELSE IF Contains(text, Fence)
         THEN Split(Split(text, Fence)[2], Fence)[1]
    ELSE Strip(text)

\* YtAgent._extract_code
extract_code(text) ==
    IF text = <<>> THEN <<>>
    ELSE IF Contains(text, PythonFence)
         THEN Strip(Split(Split(text, PythonFence)[2], Fence)[1])
    ELSE IF Contains(text, Fence)
         THEN Strip(Split(Split(text, Fence)[2], Fence)[1])
    ELSE Strip(text)

\* "# Error: No LLM client available."
NoClientMsg ==
    <<"#", " ", "E", "r", "r", "o", "r", ":", " ", "N", "o", " ", "L", "L",
      "M", " ", "c", "l", "i", "e", "n", "t", " ", "a", "v", "a", "i", "l",
      "a", "b", "l", "e", ".">>

\* "# Error generating code: "
ErrPrefix ==
    <<"#", " ", "E", "r", "r", "o", "r", " ", "g", "e", "n", "e", "r", "a",
      "t", "i", "n", "g", " ", "c", "o", "d", "e", ":", " ">>

\* "Error", the marker both error strings carry
ErrMarker == <<"E", "r", "r", "o", "r">>

(***************************************************************************)
(* The inputs the environment supplies.                                    *)
(***************************************************************************)
Queries == {"list available fields"}

\* the strings input() may return at the confirmation prompt
Answers == {"y", "Y", "n", "yes"}

\* str.lower on the answers
Lower(c) == IF c = "Y" THEN "y" ELSE c

\* the first character of a line of code stands for its statement (see
\* StmtKind); one-statement and two-statement code strings of every kind
StmtChars == {"x", "r", "z", "q", "k", "s", "#", "("}

Programs ==
    {<<>>} \cup { <<c>> : c \in StmtChars }
           \cup { <<"x", NL, c>> : c \in StmtChars }
           \cup { <<"s", NL, c>> : c \in {"x", "r", "q"} }

\* str(e) of the exception a failed remote call raises: empty, one line, two
\* lines of which the second is text, two lines of which the second starts
\* with a hash sign
ErrDescs == { <<>>, <<"x">>, <<"x", NL, "x">>, <<"x", NL, "#">> }

\* response.text of a successful generate_content call: a statement in a
\* python-tagged fence, in an untagged fence, bare, with prose around, or nothing
Responses ==
    { PythonFence \o <<NL, c, NL>> \o Fence : c \in {"x", "r", "q"} }
    \cup { Fence \o <<NL, "x", NL>> \o Fence,
           <<" ", "x", NL>>,
           <<>>,
           <<"o", "k", NL>> \o PythonFence \o <<NL, "#", NL>> \o Fence \o <<NL>> }

GenOutcomes ==
    { [ok |-> TRUE, text |-> t] : t \in Responses }
    \cup { [ok |-> FALSE, err |-> e] : e \in ErrDescs }

\* _extract_code of each response text, computed once
ExtractedOf == [t \in Responses |-> extract_code(t)]

\* every code string handed to the sandbox
CodeStrings ==
    Programs \cup { ExtractedOf[t] : t \in Responses }
             \cup { ErrPrefix \o e : e \in ErrDescs } \cup {NoClientMsg}

(***************************************************************************)
(* The Python builtin exec, as far as the sandbox depends on it.  A code    *)
(* string is a sequence of lines, one statement per line, and the first     *)
(* character of a line stands for the statement:                            *)
(*   #  a comment              x  a statement that prints                   *)
(*   r  raise ValueError       z  1/0                                       *)
(*   q  raise SystemExit       k  raise KeyboardInterrupt                   *)
(*   s  sys.stdout = <another stream>                                       *)
(* Anything else, and an indented statement, is a SyntaxError, raised when  *)
(* the string is compiled, before any statement runs.                       *)
(***************************************************************************)
RECURSIVE LStripSpaces(_)
LStripSpaces(s) ==
    IF s # <<>> /\ s[1] = " " THEN LStripSpaces(Tail(s)) ELSE s

StmtKind(line) ==
    LET t == LStripSpaces(line) IN
    IF t = <<>> THEN "blank"
    ELSE IF t[1] = "#" THEN "comment"
    ELSE IF line[1] = " " THEN "syntax"
    ELSE IF t[1] = "x" THEN "print"
    ELSE IF t[1] = "r" THEN "ValueError"
    ELSE IF t[1] = "z" THEN "ZeroDivisionError"
    ELSE IF t[1] = "q" THEN "SystemExit"
    ELSE IF t[1] = "k" THEN "KeyboardInterrupt"
    ELSE IF t[1] = "s" THEN "swap"
    ELSE "syntax"

RECURSIVE RunStmts(_, _, _, _)
\* runs the statements from the i-th on; printed counts the prints that
\* reached the capture buffer, swapped tells whether the code rebound sys.stdout
RunStmts(kinds, i, printed, swapped) ==
    IF i > Len(kinds) THEN [printed |-> printed, swapped |-> swapped, exc |-> None]
    ELSE IF kinds[i] \in {"blank", "comment"} THEN RunStmts(kinds, i + 1, printed, swapped)
    ELSE IF kinds[i] = "print"
         THEN RunStmts(kinds, i + 1, IF swapped THEN printed ELSE printed + 1, swapped)
    ELSE IF kinds[i] = "swap" THEN RunStmts(kinds, i + 1, printed, TRUE)
    ELSE [printed |-> printed, swapped |-> swapped, exc |-> kinds[i]]

python_exec(code_str) ==
    LET lines == Split(code_str, <<NL>>)
        kinds == [i \in 1..Len(lines) |-> StmtKind(lines[i])]
    IN  IF \E i \in 1..Len(kinds) : kinds[i] = "syntax"
        THEN [printed |-> 0, swapped |-> FALSE, exc |-> "SyntaxError"]
        ELSE RunStmts(kinds, 1, 0, FALSE)

\* what exec does with each code string, computed once
Executed == [c \in CodeStrings |-> python_exec(c)]

\* a code string with no effect when executed: every line blank or a comment
Inert(code_str) ==
    LET lines == Split(code_str, <<NL>>) IN
    \A i \in 1..Len(lines) : StmtKind(lines[i]) \in {"blank", "comment"}

\* the inert ones among the code strings, computed once
InertCodes == { c \in CodeStrings : Inert(c) }

(***************************************************************************)
(* src/yt_agent/tools/execution.py                                         *)
(***************************************************************************)
\* the classes `except Exception` catches, among those python_exec raises
IsException(cls) == cls \in {"ValueError", "ZeroDivisionError", "SyntaxError"}

capture_output_no_finally(old, cur, raising) == IF raising THEN cur ELSE old

\* capture_output: the stream bound to a sys stream once the context manager
\* has exited; old is the stream saved on entry, cur the one bound when the
\* body ended, raising tells whether the body ended by an exception
capture_output(old, cur, raising) == old

\* execute_generated_code(code_str) called with sys.stdout = out, sys.stderr = err.
\* stdout, stderr and exception are the returned triple (when returned);
\* escaped is the exception that leaves the call
execute_generated_code(code_str, out, err) ==
    LET r       == Executed[code_str]
        caught  == r.exc # None /\ IsException(r.exc)
        escapes == r.exc # None /\ ~caught
        cur_out == IF r.swapped THEN "code_stream" ELSE "new_out"
    IN  [ code       |-> code_str,
          returned   |-> ~escapes,
          stdout     |-> IF escapes THEN 0 ELSE r.printed,
          stderr     |-> IF caught THEN <<"Traceback", r.exc>> ELSE <<>>,
          exception  |-> IF caught THEN r.exc ELSE None,
          escaped    |-> IF escapes THEN r.exc ELSE None,
          out_before |-> out,
          err_before |-> err,
          out_after  |-> capture_output(out, cur_out, escapes),
          err_after  |-> capture_output(err, "new_err", escapes) ]

\* the execution record of a cycle in which the sandbox was not invoked
NoExec == [code |-> <<>>, returned |-> TRUE, stdout |-> 0, stderr |-> <<>>,
           exception |-> None, escaped |-> None, out_before |-> None,
           err_before |-> None, out_after |-> None, err_after |-> None]

(***************************************************************************)
(* src/yt_agent/agent.py: the knowledge base and the context               *)
(***************************************************************************)
\* the markdown files a knowledge_base directory may hold; content stands for
\* the file's text and content_len for its length in characters.  Their parts
\* are 499 and 500 characters long, and the context of both is 1000 long
KBFiles ==
    { [name |-> "a.md", name_len |-> 4, content |-> "A", content_len |-> 472],
      [name |-> "b.md", name_len |-> 4, content |-> "B", content_len |-> 473] }

\* the orders in which glob may enumerate the files of a set
Enumerations(files) ==
    { o \in [1..Cardinality(files) -> files] :
        \A i, j \in 1..Cardinality(files) : i # j => o[i] # o[j] }

\* f"--- Context from {md_file.name} ---\n{content}\n": the file's text under
\* a header that names the file
context_part(f) ==
    [ name |-> f.name, name_len |-> f.name_len,
      content |-> f.content, content_len |-> f.content_len,
      header |-> <<"--- Context from ", f.name, " ---">> ]

RECURSIVE PartsOf(_, _)
\* the loop over the files: a file whose read raises is skipped
PartsOf(listing, unreadable) ==
    IF listing = <<>> THEN <<>>
    ELSE (IF Head(listing) \in unreadable THEN <<>> ELSE <<context_part(Head(listing))>>)
         \o PartsOf(Tail(listing), unreadable)

\* _load_knowledge_base giving up the whole load at the first unreadable file
load_knowledge_base_all_or_nothing(dir_exists, listing, unreadable) ==
    IF ~dir_exists \/ (\E i \in DOMAIN listing : listing[i] \in unreadable) THEN <<>>
    ELSE PartsOf(listing, {})

\* _load_knowledge_base: the parts appended, in enumeration order; the context
\* is their "\n".join, and <<>> is the empty context
load_knowledge_base(dir_exists, listing, unreadable) ==
    IF ~dir_exists THEN <<>>
    ELSE PartsOf(listing, unreadable)

\* len(f"--- Context from {md_file.name} ---\n{content}\n")
PartLen(f) == 17 + f.name_len + 4 + 1 + f.content_len + 1

RECURSIVE SumLen(_)
SumLen(parts) == IF parts = <<>> THEN 0 ELSE PartLen(Head(parts)) + SumLen(Tail(parts))

\* len(self.context)
ContextLen(context) ==
    IF context = <<>> THEN 0 ELSE SumLen(context) + (Len(context) - 1)

\* hashlib.md5(...).hexdigest(), taken as collision free: the digest is
\* determined by, and determines, the names and texts in their order
content_hash(context) == [i \in 1..Len(context) |-> <<context[i].name, context[i].content>>]

display_name_of(context) == <<"yt-agent-kb-", content_hash(context)>>

\* the minimum context length for which a cache is created
MinCacheLen == 1000

below_threshold_off_by_one(n) == n <= MinCacheLen

\* len(self.context) < 1000
below_threshold(n) == n < MinCacheLen

create_result_unchecked(ok, name) == name

\* self.cached_content_name after the creation call: cache.name, or None when
\* the call raised
create_result(ok, name) == IF ok THEN name ELSE None

\* the name the remote service gives its i-th cache entry
CacheName(i) == "cachedContents/" \o ToString(i)

\* the entries among those listed whose display name is the context's
Matches(context, listed) ==
    { c \in listed : c.display_name = display_name_of(context) }

\* _setup_cache.  list_fails: whether caches.list() fails before it yields a
\* matching entry; existing: the name of the matching entry the loop stops at
\* (None when it finds none); create_ok: whether the creation call succeeds;
\* new_name: the name the service gives a new entry
setup_cache(use_cache, context, list_fails, existing, create_ok, new_name) ==
    LET skip == [ ran |-> TRUE, list_called |-> FALSE, list_failed |-> FALSE,
                  found |-> FALSE, create_attempted |-> FALSE, create_ok |-> FALSE,
                  handle |-> None, raised |-> FALSE ]
    IN  IF ~use_cache \/ context = <<>> THEN skip
        ELSE IF existing # None
        THEN [skip EXCEPT !.list_called = TRUE, !.found = TRUE, !.handle = existing]
        ELSE IF below_threshold(ContextLen(context))
        THEN [skip EXCEPT !.list_called = TRUE, !.list_failed = list_fails]
        ELSE [skip EXCEPT !.list_called = TRUE, !.list_failed = list_fails,
                          !.create_attempted = TRUE, !.create_ok = create_ok,
                          !.handle = create_result(create_ok, new_name)]

\* cache setup was not called
NoSetup == [ ran |-> FALSE, list_called |-> FALSE, list_failed |-> FALSE,
             found |-> FALSE, create_attempted |-> FALSE, create_ok |-> FALSE,
             handle |-> None, raised |-> FALSE ]

NoAgent == [client |-> None, context |-> <<>>, use_cache |-> FALSE,
            cached_content_name |-> None]

\* YtAgent.__init__: the fields after construction and what cache setup did.
\* genai: the client library was imported; api_key: GOOGLE_API_KEY is set;
\* client_ok: genai.Client(...) did not raise
construct(genai, api_key, client_ok, use_cache, context, list_fails, existing, create_ok, new_name) ==
    LET has_client == genai /\ api_key /\ client_ok
        setup == IF has_client
                 THEN setup_cache(use_cache, context, list_fails, existing,
                                  create_ok, new_name)
                 ELSE NoSetup
    IN  [ fields |-> [ client |-> IF has_client THEN "client" ELSE None,
                       context |-> context,
                       use_cache |-> use_cache,
                       cached_content_name |-> setup.handle ],
          setup |-> setup,
          completed |-> ~setup.raised ]

(***************************************************************************)
(* src/yt_agent/agent.py: generate_code                                    *)
(***************************************************************************)
no_client_never(client) == FALSE

\* not self.client
no_client(client) == client = None

\* the value of `temperature` in both request shapes, in tenths
TemperatureTenths == 2

\* no request is sent
NoRequest == [cached_content |-> None, prompt |-> {}, temperature |-> 0]

\* the request with the context sent along in the cached regime too
build_request_context_always(a) ==
    [ cached_content |-> a.cached_content_name,
      prompt |-> {"system_instructions", "context", "query", "contract"},
      temperature |-> TemperatureTenths ]

\* the arguments of generate_content: the cache reference of the config
\* (None when the config names none), what the prompt is made of, and the
\* temperature.  "contract" is the closing instruction to generate Python code
build_request(a) ==
    IF a.cached_content_name # None
    THEN [ cached_content |-> a.cached_content_name,
           prompt |-> {"query", "contract"},
           temperature |-> TemperatureTenths ]
    ELSE [ cached_content |-> None,
           prompt |-> {"system_instructions", "context", "query", "contract"},
           temperature |-> TemperatureTenths ]

\* generate_code.  live: the names of the live remote entries.  outcome: what
\* the remote generate_content call does, [ok, text] or [ok, err]
generate_code(a, user_query, live, outcome) ==
    IF no_client(a.client)
    THEN [ query |-> user_query, remote_call |-> FALSE, request |-> NoRequest,
           regimes |-> <<>>, failed |-> FALSE, handle |-> a.cached_content_name,
           handle_live |-> FALSE, code |-> NoClientMsg ]
    ELSE LET cached == a.cached_content_name # None
         IN  [ query |-> user_query, remote_call |-> TRUE, request |-> build_request(a),
               regimes |-> IF cached THEN <<"cached">> ELSE <<"inline">>,
               failed |-> ~outcome.ok,
               handle |-> a.cached_content_name,
               handle_live |-> a.cached_content_name \in live,
               code |-> IF outcome.ok THEN ExtractedOf[outcome.text]
                        ELSE ErrPrefix \o outcome.err ]

\* generate_code forgetting the cache handle when the remote call failed
fields_after_generate_dropping_handle(a, failed) ==
    IF failed THEN [a EXCEPT !.cached_content_name = None] ELSE a

\* the agent's fields after generate_code: the method assigns to none of them
fields_after_generate(a, failed) == a

(***************************************************************************)
(* The state machine.                                                      *)
(***************************************************************************)
\* run executing before it shows the code and asks
run_steps_execute_first(auto_execute, choice) ==
    <<"generate">> \o
    (IF auto_execute THEN <<"execute", "show">>
     ELSE (IF Lower(choice) = "y" THEN <<"execute">> ELSE <<>>) \o <<"show", "confirm">>)

run_steps_case_sensitive(auto_execute, choice) ==
    <<"generate", "show">> \o
    (IF auto_execute THEN <<"execute">>
     ELSE <<"confirm">> \o (IF choice = "y" THEN <<"execute">> ELSE <<>>))

\* YtAgent.run: the steps a call takes, in order: generate_code, the printing
\* of the code, the confirmation prompt, execute_generated_code
run_steps(auto_execute, choice) ==
    <<"generate", "show">> \o
    (IF auto_execute THEN <<"execute">>
     ELSE <<"confirm">> \o (IF Lower(choice) = "y" THEN <<"execute">> ELSE <<>>))

LiveNames == { c.name : c \in remote }

\* the remote service rejects a request that refers to a cache entry it no
\* longer holds
Accepts(a, outcome) ==
    (a.cached_content_name # None /\ a.cached_content_name \notin LiveNames) => ~outcome.ok

\* YtAgentApp before on_mount: no worker, no pending callback, an empty log
NoTui == [mounted |-> FALSE, workers |-> <<>>, callbacks |-> <<>>, log |-> <<>>]

\* the outcome standing for "no remote call was made"
Unused == [ok |-> TRUE, text |-> <<>>]

Init ==
    /\ proc = "down"
    /\ agent = NoAgent
    /\ remote = {}
    /\ nextId = 1
    /\ sys_stdout = "tty_out"
    /\ sys_stderr = "tty_err"
    /\ history = <<>>
    /\ tui = NoTui
    /\ last = [op |-> "init"]

\* a process starts and constructs its YtAgent (main.py:74, tui.py:48).
\* Inputs the construction does not read are held at one value.
Startup ==
    /\ proc = "down"
    /\ \E genai \in BOOLEAN, api_key \in BOOLEAN, client_ok \in BOOLEAN :
       /\ client_ok \/ (genai /\ api_key)
       /\ \E use_cache \in BOOLEAN, dir_exists \in BOOLEAN, files \in SUBSET KBFiles :
          /\ dir_exists \/ files = {}
          /\ \E listing \in Enumerations(files), unreadable \in SUBSET files :
             LET context == load_knowledge_base(dir_exists, listing, unreadable)
                 listed  == genai /\ api_key /\ client_ok /\ use_cache /\ context # <<>>
                 matches == Matches(context, remote)
             IN
             \E list_fails \in BOOLEAN, create_ok \in BOOLEAN :
                /\ list_fails => listed
                /\ create_ok => (listed /\ nextId <= MaxCaches)
                /\ \E existing \in (IF list_fails \/ matches = {} THEN {None}
                                    ELSE { m.name : m \in matches }) :
                     LET c == construct(genai, api_key, client_ok, use_cache, context,
                                        list_fails, existing, create_ok,
                                        CacheName(nextId))
                         created == c.setup.create_attempted /\ c.setup.create_ok
                         entry == [ name |-> CacheName(nextId),
                                    display_name |-> display_name_of(context) ]
                     IN
                     /\ create_ok => c.setup.create_attempted
                     /\ proc' = IF c.completed THEN "up" ELSE "down"
                     /\ agent' = IF c.completed THEN c.fields ELSE NoAgent
                     /\ remote' = IF created THEN remote \cup {entry} ELSE remote
                     /\ nextId' = IF created THEN nextId + 1 ELSE nextId
                     /\ last' = [ op |-> "startup", genai |-> genai,
                                  api_key |-> api_key, client_ok |-> client_ok,
                                  setup |-> c.setup,
                                  matching |-> { m.name : m \in matches },
                                  dir_exists |-> dir_exists, files |-> files,
                                  unreadable |-> unreadable, context |-> context,
                                  context_len |-> ContextLen(context),
                                  completed |-> c.completed ]
    /\ UNCHANGED <<tui, sys_stdout, sys_stderr, history>>

\* the process ends: 'exit' or 'quit' at the prompt, or the one query is done
Shutdown ==
    /\ proc = "up"
    /\ proc' = "down"
    /\ agent' = NoAgent
    /\ last' = [op |-> "shutdown"]
    /\ UNCHANGED <<tui, remote, nextId, sys_stdout, sys_stderr, history>>

\* the remote service drops a cache entry whose ttl has elapsed
Expire ==
    /\ \E c \in remote : remote' = remote \ {c}
    /\ last' = [op |-> "expire"]
    /\ UNCHANGED <<tui, proc, agent, nextId, sys_stdout, sys_stderr, history>>

\* a caller (the terminal UI's worker) calls agent.generate_code(query)
GenerateCode ==
    /\ proc = "up"
    /\ \E q \in Queries, outcome \in GenOutcomes :
          /\ Accepts(agent, outcome)
          /\ LET g == generate_code(agent, q, LiveNames, outcome) IN
             /\ g.remote_call \/ outcome = Unused
             /\ agent' = fields_after_generate(agent, g.failed)
             /\ last' = [op |-> "generate", gen |-> g]
    /\ UNCHANGED <<tui, proc, remote, nextId, sys_stdout, sys_stderr, history>>

\* a caller with no agent (a test, a script) calls
\* execute_generated_code(code) on a code string of its own
Execute ==
    /\ proc = "down"
    /\ \E code \in Programs :
          LET e == execute_generated_code(code, sys_stdout, sys_stderr) IN
          /\ sys_stdout' = e.out_after
          /\ sys_stderr' = e.err_after
          /\ last' = [op |-> "execute", ex |-> e]
    /\ UNCHANGED <<tui, proc, agent, remote, nextId, history>>

\* main calls agent.run(query, auto_execute); an exception that leaves run
\* leaves main too (main.py:83, 95-99) and ends the process
Run ==
    /\ proc = "up"
    /\ \E q \in Queries, outcome \in GenOutcomes, auto_execute \in BOOLEAN,
          choice \in Answers \cup {None} :
          /\ Accepts(agent, outcome)
          /\ auto_execute <=> choice = None
          /\ LET g == generate_code(agent, q, LiveNames, outcome)
                 steps == run_steps(auto_execute, choice)
                 do_exec == \E i \in DOMAIN steps : steps[i] = "execute"
                 e == execute_generated_code(g.code, sys_stdout, sys_stderr)
                 returned == ~do_exec \/ e.returned
             IN
             /\ g.remote_call \/ outcome = Unused
             /\ sys_stdout' = IF do_exec THEN e.out_after ELSE sys_stdout
             /\ sys_stderr' = IF do_exec THEN e.err_after ELSE sys_stderr
             /\ proc' = IF returned THEN "up" ELSE "down"
             /\ agent' = IF returned THEN fields_after_generate(agent, g.failed) ELSE NoAgent
             /\ history' = history
             /\ last' = [ op |-> "run", gen |-> g, auto_execute |-> auto_execute,
                          choice |-> choice, steps |-> steps,
                          shown |-> g.code, executed |-> do_exec,
                          ex |-> IF do_exec THEN e ELSE NoExec,
                          returned |-> returned,
                          history_before |-> Len(history) ]
    /\ UNCHANGED <<tui, remote, nextId>>

Next ==
    \/ Startup
    \/ Shutdown
    \/ Expire
    \/ GenerateCode
    \/ Execute
    \/ Run

Spec == Init /\ [][Next]_vars

(***************************************************************************)
(* _extract_code on its own: the method reads no field of the agent, so it *)
(* is applied to texts put together from fences, tags, text and newlines.  *)
(***************************************************************************)
\* a text is at most this many pieces long
MaxPieces == 5

Pieces == { <<BQ>>, Fence, PythonFence, <<"x">>, <<"y">>, <<NL>> }

RECURSIVE TextsOf(_)
TextsOf(n) ==
    IF n = 0 THEN {<<>>}
    ELSE LET shorter == TextsOf(n - 1) IN
         shorter \cup { t \o p : t \in shorter, p \in Pieces }

Texts == TextsOf(MaxPieces)

InitExtract ==
    /\ proc = "down"
    /\ agent = NoAgent
    /\ remote = {}
    /\ nextId = 1
    /\ sys_stdout = "tty_out"
    /\ sys_stderr = "tty_err"
    /\ history = <<>>
    /\ tui = NoTui
    /\ \E t \in Texts : last = [op |-> "text", text |-> t]

\* self._extract_code(response.text)
ExtractCode ==
    /\ last.op = "text"
    /\ last' = [op |-> "extract", text |-> last.text, code |-> extract_code(last.text)]
    /\ UNCHANGED <<tui, proc, agent, remote, nextId, sys_stdout, sys_stderr, history>>

\* _extract_code applied to what _extract_code returned
ExtractAgain ==
    /\ last.op = "extract"
    /\ last' = [op |-> "extract_again", text |-> last.text, code |-> last.code,
                again |-> extract_code(last.code)]
    /\ UNCHANGED <<tui, proc, agent, remote, nextId, sys_stdout, sys_stderr, history>>

NextExtract ==
    \/ ExtractCode
    \/ ExtractAgain

SpecExtract == InitExtract /\ [][NextExtract]_vars

(***************************************************************************)
(* src/yt_agent/tui.py: the terminal UI.  The presentation thread runs     *)
(* on_mount, on_input_submitted and the callbacks; each submission starts  *)
(* a thread worker (@work(exclusive=True, thread=True)).  Starting an      *)
(* exclusive worker cancels the workers before it; a cancelled worker      *)
(* whose thread has not begun its work never begins it, and one whose      *)
(* thread is running is not stopped: run_query_worker never looks at the   *)
(* cancellation flag.  call_from_thread runs the callback on the           *)
(* presentation thread and hands its result, or the exception it raised,   *)
(* back to the waiting worker thread; the chat log (RichLog, markup=True)  *)
(* raises MarkupError when asked to write text that holds a closing tag    *)
(* with no opening one, as in print("[/INFO] done").  An exception that    *)
(* leaves run_query_worker ends the application.                           *)
(***************************************************************************)
\* the user submits at most this many non-empty queries
MaxSubmits == 2

\* message.value of Input.Submitted
InputValues == { <<>>, <<" ">>, <<"q">>, <<" ", "q", " ">> }

\* @work(exclusive=True): every worker that has not finished is cancelled
cancel_group(workers) ==
    [i \in DOMAIN workers |->
        IF workers[i].state \in {"finished", "failed"} THEN workers[i]
        ELSE [workers[i] EXCEPT !.cancelled = TRUE]]

\* the workers whose thread is inside agent.generate_code
Generating == { i \in DOMAIN tui.workers : tui.workers[i].state = "generating" }

\* YtAgentApp.on_mount: the agent is constructed, then the welcome lines are
\* written.  The knowledge base holds both files or none.
OnMount ==
    /\ proc = "down"
    /\ ~tui.mounted
    /\ \E client_ok \in BOOLEAN, use_cache \in BOOLEAN, listing \in Enumerations(KBFiles),
          dir_exists \in BOOLEAN :
          LET context == load_knowledge_base(dir_exists, listing, {})
              c == construct(TRUE, TRUE, client_ok, use_cache, context, FALSE, None,
                             TRUE, CacheName(nextId))
              created == c.setup.create_attempted /\ c.setup.create_ok
              entry == [ name |-> CacheName(nextId),
                         display_name |-> display_name_of(context) ]
          IN
          /\ proc' = "up"
          /\ agent' = c.fields
          /\ remote' = IF created THEN remote \cup {entry} ELSE remote
          /\ nextId' = IF created THEN nextId + 1 ELSE nextId
          /\ tui' = [tui EXCEPT !.mounted = TRUE,
                                !.log = <<[thread |-> "ui", kind |-> "welcome", worker |-> 0]>>]
          /\ last' = [op |-> "mount", setup |-> c.setup]
    /\ UNCHANGED <<sys_stdout, sys_stderr, history>>

\* YtAgentApp.on_input_submitted: an empty query is dropped; otherwise the
\* query is logged and run_query_worker(query) starts an exclusive worker
OnInputSubmitted ==
    /\ proc = "up"
    /\ tui.mounted
    /\ \E value \in InputValues :
          LET query == Strip(value) IN
          IF query = <<>>
          THEN /\ tui' = tui
               /\ last' = [op |-> "submit", value |-> value, started |-> 0]
          ELSE /\ Len(tui.workers) < MaxSubmits
               /\ tui' = [tui EXCEPT
                            !.log = Append(@, [thread |-> "ui", kind |-> "user",
                                               worker |-> Len(tui.workers) + 1]),
                            !.workers = Append(cancel_group(@),
                                               [query |-> query, state |-> "started",
                                                cancelled |-> FALSE,
                                                delivered |-> <<>>])]
               /\ last' = [op |-> "submit", value |-> value,
                           started |-> Len(tui.workers) + 1]
    /\ UNCHANGED <<proc, agent, remote, nextId, sys_stdout, sys_stderr, history>>

\* run_query_worker: the worker's thread begins and calls
\* self.agent.generate_code(query)
WorkerEnter ==
    /\ proc = "up"
    /\ \E i \in DOMAIN tui.workers :
          /\ tui.workers[i].state = "started"
          /\ ~tui.workers[i].cancelled
          /\ tui' = [tui EXCEPT !.workers[i].state = "generating"]
          /\ last' = [op |-> "enter", worker |-> i]
    /\ UNCHANGED <<proc, agent, remote, nextId, sys_stdout, sys_stderr, history>>

\* run_query_worker: generate_code returns and the thread hands
\* update_log_with_code to call_from_thread, which blocks it until the
\* presentation thread has run the callback
WorkerReturn ==
    /\ proc = "up"
    /\ \E i \in DOMAIN tui.workers, outcome \in GenOutcomes :
          /\ tui.workers[i].state = "generating"
          /\ Accepts(agent, outcome)
          /\ LET g == generate_code(agent, tui.workers[i].query, LiveNames, outcome) IN
             /\ g.remote_call \/ outcome = Unused
             /\ tui' = [tui EXCEPT
                          !.workers[i].state = "waiting",
                          !.callbacks = Append(@, [worker |-> i, kind |-> "code",
                                                   payload |-> g.code])]
             /\ agent' = fields_after_generate(agent, g.failed)
             /\ last' = [op |-> "return", worker |-> i, gen |-> g]
    /\ UNCHANGED <<proc, remote, nextId, sys_stdout, sys_stderr, history>>

\* run_query_worker, the except branch: the exception that call_from_thread
\* handed back is caught and update_log_with_error is given to
\* call_from_thread
WorkerExcept ==
    /\ proc = "up"
    /\ \E i \in DOMAIN tui.workers :
          /\ tui.workers[i].state = "caught"
          /\ tui' = [tui EXCEPT
                       !.workers[i].state = "waiting",
                       !.callbacks = Append(@, [worker |-> i, kind |-> "error",
                                                payload |-> <<>>])]
          /\ last' = [op |-> "except", worker |-> i]
    /\ UNCHANGED <<proc, agent, remote, nextId, sys_stdout, sys_stderr, history>>

\* what a callback writes to the chat log.  update_log_with_code writes a
\* heading, then the code, then a hint; update_log_with_error writes one
\* line.  rejected: the log raises on the text made from the payload
log_after_callback(log, cb, rejected) ==
    IF cb.kind = "code"
    THEN Append(log, [thread |-> "ui", worker |-> cb.worker,
                      kind |-> IF rejected THEN "code_heading" ELSE "code"])
    ELSE IF rejected THEN log
    ELSE Append(log, [thread |-> "ui", kind |-> "error", worker |-> cb.worker])

\* the worker's thread after call_from_thread: a callback that returned
\* lets run_query_worker return; an exception out of update_log_with_code
\* is raised inside the try; one out of update_log_with_error leaves
\* run_query_worker
state_after_callback(cb, rejected) ==
    IF ~rejected THEN "finished"
    ELSE IF cb.kind = "code" THEN "caught"
    ELSE "failed"

\* the presentation thread runs the oldest pending callback
\* (update_log_with_code or update_log_with_error) for the worker waiting
\* in call_from_thread
Deliver ==
    /\ proc = "up"
    /\ tui.callbacks # <<>>
    /\ \E rejected \in BOOLEAN :
       LET cb == Head(tui.callbacks)
           after == state_after_callback(cb, rejected)
       IN
       /\ tui' = [tui EXCEPT
                    !.callbacks = Tail(@),
                    !.log = log_after_callback(@, cb, rejected),
                    !.workers[cb.worker].state = after,
                    !.workers[cb.worker].delivered = Append(@, cb.kind)]
       /\ proc' = IF after = "failed" THEN "down" ELSE proc
       /\ last' = [op |-> "deliver", worker |-> cb.worker, kind |-> cb.kind,
                   rejected |-> rejected]
    /\ UNCHANGED <<agent, remote, nextId, sys_stdout, sys_stderr, history>>

NextTui ==
    \/ OnMount
    \/ OnInputSubmitted
    \/ WorkerEnter
    \/ WorkerReturn
    \/ WorkerExcept
    \/ Deliver

SpecTui == Init /\ [][NextTui]_vars

(***************************************************************************)
(* The claims.                                                             *)
(***************************************************************************)
\* the last operation called generate_code
HasGen == last.op \in {"generate", "run"}

\* the last operation called execute_generated_code
HasExec == last.op = "execute" \/ (last.op = "run" /\ last.executed)

\* C1: for any code string, execute_generated_code returns a result to its
\* caller and never raises to it.
C1_ExecuteNeverRaises == HasExec => (last.ex.returned /\ last.ex.escaped = None)

\* C2: after any call of execute_generated_code, on every exit path, sys.stdout
\* and sys.stderr are the stream objects they were before the call, and no
\* capture buffer stays bound once the call is over.
C2_StreamsRestored ==
    /\ HasExec => (sys_stdout = last.ex.out_before /\ sys_stderr = last.ex.err_before)
    /\ sys_stdout \notin {"new_out", "code_stream"}
    /\ sys_stderr # "new_err"

\* C2 witness: the code rebound sys.stdout and then raised SystemExit, which
\* left the call, and the streams are those from before the call.
C2_Witness ==
    /\ last.op = "execute"
    /\ last.ex.code = <<"s", NL, "q">>
    /\ last.ex.escaped = "SystemExit"
    /\ sys_stdout = "tty_out"
    /\ sys_stderr = "tty_err"

\* C3: a generate request made while the agent holds a cache handle that is
\* no longer valid remotely falls back to an inline-context request.
C3_ExpiredHandleFallsBack ==
    (HasGen /\ last.gen.remote_call /\ last.gen.handle # None /\ ~last.gen.handle_live)
        => (/\ \E i \in DOMAIN last.gen.regimes : last.gen.regimes[i] = "inline"
            /\ ~last.gen.failed)

\* C4: every call of run that returns has appended exactly one record to the
\* interaction log.
C4_RunLogsOneRecord ==
    (last.op = "run" /\ last.returned) => Len(history) = last.history_before + 1

\* C5: at most one live remote cache entry carries the display name derived
\* from a context, whatever the startups and listing failures so far.
C5_AtMostOneLiveCachePerContext ==
    \A c1 \in remote, c2 \in remote :
        c1.display_name = c2.display_name => c1 = c2

\* C6: (with caching enabled) cache setup attempts a creation call if and only
\* if the context is at least 1000 characters long, and with a shorter context
\* it ends with no handle and without a creation call.
C6_ThresholdLaw ==
    (last.op = "startup" /\ last.setup.ran /\ agent.use_cache) =>
        /\ last.setup.create_attempted <=> last.context_len >= MinCacheLen
        /\ last.context_len < MinCacheLen =>
              (agent.cached_content_name = None /\ ~last.setup.create_attempted)

\* C6 as amended: cache setup attempts a creation call if and only if caching
\* is enabled, the listing found no entry with the context's display name and
\* the context is at least 1000 characters long; with a shorter context there
\* is no creation call, and no handle unless the listing found a matching entry.
C6_ThresholdLawAmended ==
    (last.op = "startup" /\ last.setup.ran) =>
        /\ last.setup.create_attempted <=>
              (agent.use_cache /\ ~last.setup.found /\ last.context_len >= MinCacheLen)
        /\ last.context_len < MinCacheLen =>
              /\ ~last.setup.create_attempted
              /\ ~last.setup.found => agent.cached_content_name = None

\* C6 witness: a context of exactly 1000 characters, no matching entry listed,
\* and the creation call was made.
C6_Witness ==
    /\ last.op = "startup"
    /\ last.context_len = MinCacheLen
    /\ ~last.setup.found
    /\ last.setup.create_attempted

\* C7: if the listing of existing caches fails, cache setup ends with no
\* handle and makes no creation call.
C7_ListFailureEndsWithoutCache ==
    (last.op = "startup" /\ last.setup.list_failed) =>
        (agent.cached_content_name = None /\ ~last.setup.create_attempted)

\* C8: no failure of the listing or creation call leaves cache setup: the
\* construction completes for every combination of outcomes, and after a
\* failed creation the handle is none.
C8_SetupFailuresContained ==
    last.op = "startup" =>
        /\ last.completed /\ proc = "up" /\ ~last.setup.raised
        /\ (last.setup.create_attempted /\ ~last.setup.create_ok) =>
              agent.cached_content_name = None

\* C8 witness: the listing failed, the creation call was made and failed too,
\* and the agent is constructed, with a client and without a handle.
C8_Witness ==
    /\ last.op = "startup"
    /\ last.setup.list_failed
    /\ last.setup.create_attempted /\ ~last.setup.create_ok
    /\ proc = "up" /\ agent.client # None /\ agent.cached_content_name = None

\* C9: when the remote generation call fails, generate_code returns a string
\* that is entirely a comment, whatever the error description.
C9_FailureIsInertComment ==
    (HasGen /\ last.gen.failed) => last.gen.code \in InertCodes

\* C10: with no credential, no client library or a failed client construction,
\* the agent is constructed with no client and without a list or create call,
\* and every generate call returns a non-empty placeholder carrying the error
\* marker without a remote call.
C10_DegradedMode ==
    /\ (last.op = "startup" /\ ~(last.genai /\ last.api_key /\ last.client_ok)) =>
          /\ proc = "up" /\ agent.client = None
          /\ ~last.setup.list_called /\ ~last.setup.create_attempted
    /\ (HasGen /\ proc = "up" /\ agent.client = None) =>
          /\ ~last.gen.remote_call
          /\ last.gen.code # <<>>
          /\ Contains(last.gen.code, ErrMarker)

\* C10 witness: an agent constructed without a client answered a generate call
\* with the placeholder.
C10_Witness ==
    /\ last.op = "generate"
    /\ proc = "up" /\ agent.client = None
    /\ last.gen.code = NoClientMsg

\* C11: a run cycle whose generation failed (the remote call failed, or there
\* is no client and the placeholder was returned) ends without the sandbox
\* being invoked on the error string, whatever auto_execute is.
C11_FailedGenerationNotExecuted ==
    (last.op = "run" /\ (last.gen.failed \/ ~last.gen.remote_call)) => ~last.executed

\* C12: run calls generate_code exactly once, as its first step, and invokes
\* the sandbox if and only if auto_execute is true or the answer at the prompt
\* is "y" or "Y".
C12_ExecuteOnlyWhenAskedTo ==
    last.op = "run" =>
        /\ last.steps[1] = "generate"
        /\ Cardinality({ i \in DOMAIN last.steps : last.steps[i] = "generate" }) = 1
        /\ last.executed <=> (last.auto_execute \/ last.choice \in {"y", "Y"})
        /\ last.executed => last.ex.code = last.gen.code

\* C12 witness: without auto_execute, the answer "Y" led to the execution of
\* the generated code.
C12_Witness ==
    /\ last.op = "run"
    /\ ~last.auto_execute /\ last.choice = "Y"
    /\ last.executed /\ last.ex.code = <<"x">>

\* C13: extraction is idempotent: extracting from what an extraction returned
\* gives that same code back, whatever the first text was (fenced, tagged,
\* unterminated, empty or whitespace only).
C13_ExtractionIdempotent ==
    last.op = "extract_again" => last.again = last.code

\* a tagged block with blank lines around its statement was extracted, and
\* the extraction was applied a second time
C13_Witness ==
    /\ last.op = "extract_again"
    /\ last.text = PythonFence \o <<NL, "x", NL>> \o Fence
    /\ last.code = <<"x">>
    /\ last.again = <<"x">>

\* where the fence marker, and the fence marker followed by the tag, occur
FenceAt(t) == { i \in 1..Len(t) : MatchAt(t, Fence, i) }

TaggedAt(t) == { i \in 1..Len(t) : MatchAt(t, PythonFence, i) }

Least(S) == CHOOSE i \in S : \A j \in S : i <= j

\* the content of the block whose first character is at from: it runs to the
\* next fence marker, or to the end of the text when none follows
BlockFrom(t, from) ==
    LET closers == { i \in FenceAt(t) : i >= from }
        to == IF closers = {} THEN Len(t) ELSE Least(closers) - 1
    IN  SubSeq(t, from, to)

\* s without its leading and trailing whitespace
Trimmed(s) ==
    LET solid == { i \in 1..Len(s) : s[i] \notin Whitespace } IN
    IF solid = {} THEN <<>>
    ELSE SubSeq(s, Least(solid), CHOOSE i \in solid : \A j \in solid : j <= i)

\* C14: of a text with a python-tagged block the extraction is the trimmed
\* content of the first tagged block, wherever the untagged blocks stand; of
\* a text with untagged fences only it is the trimmed content of the first
\* block; of a text with no fence it is the trimmed text.
C14_ExtractionPrecedence ==
    last.op = "extract" =>
        LET t == last.text IN
        IF TaggedAt(t) # {}
        THEN last.code = Trimmed(BlockFrom(t, Least(TaggedAt(t)) + Len(PythonFence)))
        ELSE IF FenceAt(t) # {}
        THEN last.code = Trimmed(BlockFrom(t, Least(FenceAt(t)) + Len(Fence)))
        ELSE last.code = Trimmed(t)

\* C15: in the terminal UI at most one generate call is in flight: no two
\* worker threads are inside agent.generate_code at the same time.
C15_OneGenerateInFlight == Cardinality(Generating) <= 1

\* C16: for the same set of knowledge documents every startup builds the
\* same context, hence the same content hash and cache display name, in
\* whatever order the filesystem enumerates the files.
C16_ContextIndependentOfEnumeration ==
    last.op = "startup" =>
        \A o \in Enumerations(last.files) :
            LET other == load_knowledge_base(last.dir_exists, o, last.unreadable) IN
            /\ other = last.context
            /\ display_name_of(other) = display_name_of(last.context)

\* the file records of the parts of a context
DocsOf(context) ==
    { [ name |-> context[i].name, name_len |-> context[i].name_len,
        content |-> context[i].content, content_len |-> context[i].content_len ]
      : i \in DOMAIN context }

\* C17: loading the knowledge base never fails: construction completes; with
\* no directory the context is empty; with any subset of the files
\* unreadable the context holds exactly the readable documents, once each,
\* each under the header naming it, and none of the unreadable ones.
C17_LoadNeverFails ==
    last.op = "startup" =>
        /\ last.completed
        /\ ~last.dir_exists => last.context = <<>>
        /\ last.dir_exists =>
               /\ DocsOf(last.context) = last.files \ last.unreadable
               /\ Len(last.context) = Cardinality(last.files \ last.unreadable)
               /\ \A i \in DOMAIN last.context :
                      last.context[i].header =
                          <<"--- Context from ", last.context[i].name, " ---">>

\* of two files one could not be read, and the context is the other one
C17_Witness ==
    /\ last.op = "startup"
    /\ Cardinality(last.files) = 2
    /\ Cardinality(last.unreadable) = 1
    /\ Len(last.context) = 1
    /\ last.context[1] \notin { context_part(f) : f \in last.unreadable }
    /\ agent.context = last.context

\* C18: when caching is on, the context is not empty and the listing returns
\* an entry with the display name derived from the context, cache setup
\* adopts that entry's name as the handle and creates nothing, whatever the
\* context length; every startup with this context while the entry is live
\* ends with that same handle.
C18_MatchingEntryReused ==
    (/\ last.op = "startup"
     /\ last.setup.list_called /\ ~last.setup.list_failed
     /\ last.matching # {})
    => /\ last.setup.found
       /\ ~last.setup.create_attempted
       /\ agent.cached_content_name \in last.matching
       /\ \A name \in last.matching : agent.cached_content_name = name

\* C19: the cache handle, the context and the client are written only while
\* the agent is constructed, and an agent is constructed before a generate
\* call runs; a generate call, failed or not, cached or inline, leaves the
\* three unchanged (the fields go only when the process ends).
C19_FieldsWrittenOnlyAtConstruction ==
    [][ /\ HasGen' => (proc = "up" /\ (agent' = agent \/ proc' = "down"))
        /\ agent' # agent => (last'.op = "startup" \/ proc' = "down") ]_vars

\* a generate call went out with a cache handle, failed, and the agent
\* holds the handle, its context and its client as before
C19_Witness ==
    /\ last.op = "generate"
    /\ last.gen.remote_call /\ last.gen.failed
    /\ last.gen.handle # None
    /\ agent.cached_content_name = last.gen.handle
    /\ agent.client # None /\ agent.context # <<>>

\* C20: each generation request is built in exactly one of two ways.  With
\* a cache handle held it carries the cache reference and its prompt holds
\* the query but neither the context nor the system instructions; with none
\* held it carries no cache reference and its prompt holds the system
\* instructions, the context and the query.  The temperature is 0.2 in both.
C20_TwoPromptRegimes ==
    (HasGen /\ last.gen.remote_call) =>
        LET r == last.gen.request IN
        /\ Len(last.gen.regimes) = 1
        /\ r.temperature = TemperatureTenths
        /\ IF last.gen.handle # None
           THEN /\ r.cached_content = last.gen.handle
                /\ "query" \in r.prompt
                /\ "context" \notin r.prompt
                /\ "system_instructions" \notin r.prompt
           ELSE /\ r.cached_content = None
                /\ {"system_instructions", "context", "query"} \subseteq r.prompt

\* a run sent its request under a cache handle, with the query alone
C20_Witness ==
    /\ last.op = "run"
    /\ last.gen.remote_call
    /\ last.gen.handle # None
    /\ last.gen.request.cached_content = last.gen.handle
    /\ last.gen.request.prompt = {"query", "contract"}

\* C21: in the terminal UI every line of the chat log is written by the
\* presentation thread, never by a worker thread, and a worker that has
\* finished has delivered exactly one callback, the code or the error and
\* never both.
C21_OneMarshalledCallbackPerWorker ==
    /\ \A k \in DOMAIN tui.log : tui.log[k].thread = "ui"
    /\ \A i \in DOMAIN tui.workers :
          tui.workers[i].state \in {"finished", "failed"} =>
              Len(tui.workers[i].delivered) = 1

\* C22: in the interactive session no failure while one query is handled
\* (a failed generation, a fault in the generated code, generated code that
\* asks the interpreter to exit) ends the session or the process: after
\* every query the process is still there to prompt again.
C22_SessionSurvivesEveryQuery ==
    last.op = "run" => (last.returned /\ proc = "up")

\* the places of a step in the steps of a run
StepsAt(step) == { i \in DOMAIN last.steps : last.steps[i] = step }

\* C23: within one run cycle the code handed to the sandbox is the string
\* the cycle's one generate call returned and the one shown to the user;
\* generation comes before display, display before the confirmation
\* prompt, the prompt before execution, and the code is executed at most
\* once.
C23_OneCodePerCycleInOrder ==
    last.op = "run" =>
        /\ Cardinality(StepsAt("generate")) = 1
        /\ Cardinality(StepsAt("show")) = 1
        /\ Cardinality(StepsAt("confirm")) <= 1
        /\ Cardinality(StepsAt("execute")) <= 1
        /\ \A g \in StepsAt("generate"), d \in StepsAt("show") : g < d
        /\ \A d \in StepsAt("show"), c \in StepsAt("confirm") : d < c
        /\ \A c \in StepsAt("confirm"), e \in StepsAt("execute") : c < e
        /\ \A d \in StepsAt("show"), e \in StepsAt("execute") : d < e
        /\ last.executed <=> StepsAt("execute") # {}
        /\ last.shown = last.gen.code
        /\ last.executed => last.ex.code = last.shown

\* a run generated code that raises, showed it, asked, was answered y and
\* executed that code
C23_Witness ==
    /\ last.op = "run"
    /\ last.steps = <<"generate", "show", "confirm", "execute">>
    /\ last.choice = "y"
    /\ last.gen.remote_call /\ ~last.gen.failed
    /\ last.shown = <<"r">>
    /\ last.ex.code = <<"r">>

====
